---- MODULE Spec2Model ----
(***************************************************************************)
(* The Tauri command bridge of apps/desktop/src-tauri/src/lib.rs:          *)
(* run() builds the application (four plugins, three command handlers),    *)
(* then the UI invokes greet, request_file_write_permission and            *)
(* apply_file_edit.  apply_file_edit is std::fs::write, i.e. an            *)
(* open(O_WRONLY|O_CREAT|O_TRUNC) followed by a write_all loop of write()  *)
(* system calls; async commands run on the runtime's worker threads, so    *)
(* the system calls of concurrent calls interleave.                        *)
(* Text is modelled by TLA+ strings; a file's data is a string as well.    *)
(* The calls of apply_file_edit in flight form a bag: two calls with the   *)
(* same arguments can be at the same point at the same time.               *)
(***************************************************************************)
EXTENDS Integers, Sequences, FiniteSets, Bags, TLC

VARIABLES step, builder, fs, inflight, ncalls, reply, granted, race

vars == <<step, builder, fs, inflight, ncalls, reply, granted, race>>

(* ---------------------------- bounds ---------------------------------- *)

\* Number of commands the UI invokes in one run of the application.
MaxCalls == 2

\* Length of the longest content handed to apply_file_edit.
MaxLen == 2

(* ---------------------------- inputs ---------------------------------- *)

Letter(n) == SubSeq("abcdefgh", n, n)

RECURSIVE Rep(_, _)
Rep(s, n) == IF n = 0 THEN "" ELSE s \o Rep(s, n - 1)

\* The contents the UI writes: "", "a", "bb", ... (one per length).
Contents == { Rep(Letter(n), n) : n \in 0..MaxLen }

\* The paths the UI names.  "f" does not exist at startup, "g" is a regular
\* file, "d" is a directory, "r" is a read-only file, the parent of "n/f"
\* does not exist.
Paths == {"f", "g", "d", "r", "n/f"}

PermPaths == {"", "f", "d"}

Diffs == {"", "+a"}

Names == {"", "Ada"}

\* A byte of a hole left by a write past the end of the file.
Nul == "0"

(* ------------------------- text helpers ------------------------------- *)

\* s occurs in t as a contiguous substring.
Contains(t, s) ==
    \E i \in 1..(Len(t) - Len(s) + 1) : SubSeq(t, i, i + Len(s) - 1) = s

(* ------------------------------ greet --------------------------------- *)

\* Faulty variant: the name is left out of the greeting.
GreetMutant(name) == "Hello, ! You've been greeted from Rust!"

greet(name) == "Hello, " \o name \o "! You've been greeted from Rust!"

(* ------------------- request_file_write_permission --------------------- *)

\* Faulty variant: an empty path is refused.
request_file_write_permission_mutant(file_path, diff_preview) ==
    IF file_path = ""
    THEN [ok |-> FALSE, val |-> "Permission denied"]
    ELSE [ok |-> TRUE, val |-> TRUE]

request_file_write_permission(file_path, diff_preview) ==
    [ok |-> TRUE, val |-> TRUE]

(* --------------------------- file system ------------------------------ *)

Absent == [kind |-> "absent", data |-> ""]

File(data) == [kind |-> "file", data |-> data]

InitFs ==
    [p \in Paths |->
        CASE p = "f" -> Absent
          [] p = "g" -> File("xyz")
          [] p = "d" -> [kind |-> "dir", data |-> ""]
          [] p = "r" -> [kind |-> "readonly", data |-> "ro"]
          [] OTHER   -> [kind |-> "noparent", data |-> ""]]

\* Outcome of open(path, O_WRONLY|O_CREAT|O_TRUNC) on an entry.
OpenResult(entry) ==
    CASE entry.kind = "dir"      -> "EISDIR"
      [] entry.kind = "readonly" -> "EACCES"
      [] entry.kind = "noparent" -> "ENOENT"
      [] OTHER                   -> "ok"

\* Display of std::io::Error for an OS error.
OsErrorText(e) ==
    CASE e = "EISDIR" -> "Is a directory (os error 21)"
      [] e = "EACCES" -> "Permission denied (os error 13)"
      [] e = "ENOENT" -> "No such file or directory (os error 2)"
      [] OTHER        -> "No space left on device (os error 28)"

\* Faulty variant: the file is opened in append mode.
WriteAtAppend(data, off, chunk) == data \o chunk

\* Faulty variant: every chunk is written at offset 0.
WriteAtZero(data, off, chunk) ==
    chunk \o (IF Len(chunk) < Len(data)
              THEN SubSeq(data, Len(chunk) + 1, Len(data))
              ELSE "")

\* write(fd, chunk) at the descriptor's offset: bytes before the offset are
\* kept (a hole is zero-filled), bytes under the chunk are replaced, bytes
\* after it are kept.
WriteAt(data, off, chunk) ==
    LET head == IF off <= Len(data)
                THEN SubSeq(data, 1, off)
                ELSE data \o Rep(Nul, off - Len(data))
        tail == IF off + Len(chunk) < Len(data)
                THEN SubSeq(data, off + Len(chunk) + 1, Len(data))
                ELSE ""
    IN  head \o chunk \o tail

\* Faulty variant: the file is opened without truncation.
CreatedKeep(entry) == [kind |-> "file", data |-> entry.data]

\* File::create: the file exists and is empty afterwards.
Created(entry) == File("")

(* ---------------------- apply_file_edit result ------------------------- *)

\* Faulty variant: the error text does not name the path.
MapErrNoPath(file_path, os) ==
    IF os = "ok"
    THEN [ok |-> TRUE, val |-> "()"]
    ELSE [ok |-> FALSE, val |-> "Failed to write file: " \o OsErrorText(os)]

\* fs::write(..).map_err(|e| format!("Failed to write file {}: {}", ..))?; Ok(())
MapErr(file_path, os) ==
    IF os = "ok"
    THEN [ok |-> TRUE, val |-> "()"]
    ELSE [ok |-> FALSE,
          val |-> "Failed to write file " \o file_path \o ": " \o OsErrorText(os)]

(* ------------------------------ run() ---------------------------------- *)

PluginOrder == <<"opener", "shell", "fs", "dialog">>

AllPlugins == {"opener", "shell", "fs", "dialog"}

Handlers == {"greet", "request_file_write_permission", "apply_file_edit"}

\* Faulty variant: a registration replaces the plugins registered before.
PluginReplace(b, p) == [b EXCEPT !.plugins = {p}]

\* Builder::plugin
plugin(b, p) == [b EXCEPT !.plugins = @ \cup {p}]

\* Builder::invoke_handler
invoke_handler(b, hs) == [b EXCEPT !.handlers = hs]

\* A command is dispatched only by the running application, to a handler
\* registered with invoke_handler.
Reachable(cmd) == step = Len(PluginOrder) + 2 /\ cmd \in builder.handlers

NoReply == [cmd |-> "none", a1 |-> "", os |-> "ok", attempts |-> 0,
            result |-> [ok |-> TRUE, val |-> "()"]]

\* History of the calls on one path since the path was last idle: whether
\* more than one call was in flight on it, the contents they carry, whether
\* one of them failed, whether a call on another path ran at the same time.
NoRace == [multi |-> FALSE, contents |-> {}, failed |-> FALSE, other |-> FALSE]

FailedRace == [multi |-> FALSE, contents |-> {}, failed |-> TRUE, other |-> FALSE]

Init ==
    /\ step = 0
    /\ builder = [plugins |-> {}, handlers |-> {}]
    /\ fs = InitFs
    /\ inflight = EmptyBag
    /\ ncalls = 0
    /\ reply = NoReply
    /\ granted = {}
    /\ race = [p \in Paths |-> NoRace]

\* lib.rs:34-37, one .plugin(..) call of the builder chain.
Plugin ==
    /\ step < Len(PluginOrder)
    /\ builder' = plugin(builder, PluginOrder[step + 1])
    /\ step' = step + 1
    /\ UNCHANGED <<fs, inflight, ncalls, reply, granted, race>>

\* lib.rs:38-42
InvokeHandler ==
    /\ step = Len(PluginOrder)
    /\ builder' = invoke_handler(builder, Handlers)
    /\ step' = step + 1
    /\ UNCHANGED <<fs, inflight, ncalls, reply, granted, race>>

\* lib.rs:43, the event loop starts.
Run ==
    /\ step = Len(PluginOrder) + 1
    /\ step' = step + 1
    /\ UNCHANGED <<builder, fs, inflight, ncalls, reply, granted, race>>

(* ----------------------------- commands -------------------------------- *)

Greet(name) ==
    /\ Reachable("greet")
    /\ ncalls < MaxCalls
    /\ ncalls' = ncalls + 1
    /\ reply' = [cmd |-> "greet", a1 |-> name, os |-> "ok",
                 attempts |-> 0, result |-> [ok |-> TRUE, val |-> greet(name)]]
    /\ UNCHANGED <<step, builder, fs, inflight, granted, race>>

\* Faulty variant: the permission request creates the file it is asked about.
RequestFileWritePermissionTouch(file_path, diff_preview) ==
    LET r == request_file_write_permission(file_path, diff_preview) IN
    /\ Reachable("request_file_write_permission")
    /\ ncalls < MaxCalls
    /\ ncalls' = ncalls + 1
    /\ reply' = [cmd |-> "request_file_write_permission", a1 |-> "",
                 os |-> "ok", attempts |-> 0, result |-> r]
    /\ granted' = IF r.ok /\ r.val = TRUE THEN granted \cup {file_path} ELSE granted
    /\ fs' = [p \in Paths |->
                IF p = file_path /\ fs[p].kind = "absent" THEN File("") ELSE fs[p]]
    /\ UNCHANGED <<step, builder, inflight, race>>

RequestFileWritePermission(file_path, diff_preview) ==
    LET r == request_file_write_permission(file_path, diff_preview) IN
    /\ Reachable("request_file_write_permission")
    /\ ncalls < MaxCalls
    /\ ncalls' = ncalls + 1
    /\ reply' = [cmd |-> "request_file_write_permission", a1 |-> "",
                 os |-> "ok", attempts |-> 0, result |-> r]
    /\ granted' = IF r.ok /\ r.val = TRUE THEN granted \cup {file_path} ELSE granted
    /\ UNCHANGED <<step, builder, fs, inflight, race>>

\* The calls of apply_file_edit in flight.
Calls == BagToSet(inflight)

Idle(p) == \A c \in Calls : c.path # p

\* The host dispatches apply_file_edit(file_path, content) on its own task.
Dispatch(file_path, content) ==
    /\ Reachable("apply_file_edit")
    /\ ncalls < MaxCalls
    /\ ncalls' = ncalls + 1
    /\ inflight' = inflight (+) SetToBag(
          {[path |-> file_path, content |-> content,
            pc |-> "create", off |-> 0, os |-> "pending", attempts |-> 0]})
    /\ race' = [p \in Paths |->
          IF p = file_path
          THEN IF Idle(p)
               THEN [multi |-> FALSE, contents |-> {content}, failed |-> FALSE,
                     other |-> Calls # {}]
               ELSE IF race[p].failed
               THEN FailedRace
               ELSE [multi |-> TRUE, contents |-> race[p].contents \cup {content},
                     failed |-> FALSE,
                     other |-> race[p].other \/ (\E c \in Calls : c.path # p)]
          ELSE IF Idle(p) \/ race[p].failed
               THEN race[p]
               ELSE [race[p] EXCEPT !.other = TRUE]]
    /\ UNCHANGED <<step, builder, fs, reply, granted>>

Remove(c) == inflight (-) SetToBag({c})

Replace(c, d) == Remove(c) (+) SetToBag({d})

\* fs::write, write_all: the loop ends with Ok(()) once the buffer is empty.
AfterWrite(c) ==
    IF c.off = Len(c.content) THEN [c EXCEPT !.pc = "return", !.os = "ok"] ELSE c

\* fs::write, File::create(path): open(O_WRONLY|O_CREAT|O_TRUNC).
Create(c) ==
    LET r == OpenResult(fs[c.path]) IN
    /\ c.pc = "create"
    /\ IF r = "ok"
       THEN /\ fs' = [fs EXCEPT ![c.path] = Created(@)]
            /\ inflight' = Replace(c, AfterWrite([c EXCEPT !.pc = "write",
                                                           !.attempts = @ + 1]))
       ELSE /\ fs' = fs
            /\ inflight' = Replace(c, [c EXCEPT !.pc = "return", !.os = r,
                                                !.attempts = @ + 1])
    /\ UNCHANGED <<step, builder, ncalls, reply, granted, race>>

\* fs::write, write_all: one write() of n bytes at the descriptor's offset.
WriteChunk(c, n) ==
    /\ c.pc = "write"
    /\ c.off + n <= Len(c.content)
    /\ fs' = [fs EXCEPT ![c.path].data =
                 WriteAt(@, c.off, SubSeq(c.content, c.off + 1, c.off + n))]
    /\ inflight' = Replace(c, AfterWrite([c EXCEPT !.off = @ + n]))
    /\ UNCHANGED <<step, builder, ncalls, reply, granted, race>>

\* fs::write, write_all: write() fails, the device is full.
WriteFail(c) ==
    /\ c.pc = "write"
    /\ c.off < Len(c.content)
    /\ inflight' = Replace(c, [c EXCEPT !.pc = "return", !.os = "ENOSPC"])
    /\ UNCHANGED <<step, builder, fs, ncalls, reply, granted, race>>

\* Faulty variant: a failed write is attempted a second time.
ReturnRetry(c) ==
    /\ c.pc = "return"
    /\ IF c.os # "ok" /\ c.attempts < 2
       THEN /\ inflight' = Replace(c, [c EXCEPT !.pc = "create", !.off = 0,
                                                !.os = "pending"])
            /\ UNCHANGED <<reply, race>>
       ELSE /\ inflight' = Remove(c)
            /\ reply' = [cmd |-> "apply_file_edit", a1 |-> c.path,
                         os |-> c.os, attempts |-> c.attempts,
                         result |-> MapErr(c.path, c.os)]
            /\ race' = [race EXCEPT ![c.path] =
                                      IF c.os = "ok" THEN @ ELSE FailedRace]
    /\ UNCHANGED <<step, builder, fs, ncalls, granted>>

\* lib.rs:26-28, the result of fs::write becomes the command's response.
Return(c) ==
    /\ c.pc = "return"
    /\ inflight' = Remove(c)
    /\ reply' = [cmd |-> "apply_file_edit", a1 |-> c.path,
                 os |-> c.os, attempts |-> c.attempts,
                 result |-> MapErr(c.path, c.os)]
    /\ race' = [race EXCEPT ![c.path] = IF c.os = "ok" THEN @ ELSE FailedRace]
    /\ UNCHANGED <<step, builder, fs, ncalls, granted>>

CallStep(c) ==
    \/ Create(c)
    \/ \E n \in 1..MaxLen : WriteChunk(c, n)
    \/ WriteFail(c)
    \/ Return(c)

Next ==
    \/ Plugin
    \/ InvokeHandler
    \/ Run
    \/ \E name \in Names : Greet(name)
    \/ \E p \in PermPaths, d \in Diffs : RequestFileWritePermission(p, d)
    \/ \E p \in Paths, c \in Contents : Dispatch(p, c)
    \/ \E c \in Calls : CallStep(c)

Spec == Init /\ [][Next]_vars

\* The runtime's worker threads run every dispatched task, and a system call
\* on a local file completes.
FairSpec == Spec /\ WF_vars(\E c \in Calls : CallStep(c))

(* ============================ properties =============================== *)

\* The calls on p since p was last idle were one call, which succeeded.
Single(p) ==
    /\ Idle(p)
    /\ race[p].contents # {}
    /\ ~race[p].multi
    /\ ~race[p].failed

\* The calls on p since p was last idle overlapped, and all succeeded.
Raced(p) ==
    /\ Idle(p)
    /\ race[p].multi
    /\ ~race[p].failed

Byte(s, i) == SubSeq(s, i, i)

\* C1: after a successful apply_file_edit(p, c) that ran while no other
\* apply_file_edit was in flight, the file at p holds exactly c, whatever it
\* held before (absent, a longer file, the result of earlier calls).
ExactAfterSequentialEdit ==
    \A p \in Paths :
        Single(p) /\ ~race[p].other =>
            \E c \in race[p].contents : fs[p] = File(c)

\* "g" held the longer "xyz"; a sequential edit left exactly "a".
SequentialEditOverwrote ==
    /\ Single("g") /\ ~race["g"].other
    /\ race["g"].contents = {"a"}
    /\ fs["g"] = File("a")

\* C2: the response of apply_file_edit is an error exactly when the write
\* failed in the OS; the error is a text that contains the path and the OS
\* error; a successful write gives the success signal.  A directory, a
\* read-only file and a missing parent never give success.
WriteErrorIffOsFailure ==
    reply.cmd = "apply_file_edit" =>
        /\ reply.result.ok <=> reply.os = "ok"
        /\ reply.result.ok => reply.result.val = "()"
        /\ reply.result.ok => fs[reply.a1].kind = "file"
        /\ fs[reply.a1].kind \in {"dir", "readonly", "noparent"} => ~reply.result.ok
        /\ ~reply.result.ok =>
              /\ Contains(reply.result.val, reply.a1)
              /\ Contains(reply.result.val, OsErrorText(reply.os))

WriteErrorReturned ==
    /\ reply.cmd = "apply_file_edit"
    /\ reply.a1 = "n/f"
    /\ reply.os = "ENOENT"
    /\ ~reply.result.ok

\* C3: request_file_write_permission answers Ok(true) for every pair of
\* inputs, in every state.
PermissionAlwaysTrue ==
    /\ reply.cmd = "request_file_write_permission" =>
          reply.result.ok /\ reply.result.val = TRUE
    /\ Reachable("request_file_write_permission") /\ ncalls < MaxCalls =>
          \A p \in PermPaths, d \in Diffs :
              ENABLED RequestFileWritePermission(p, d)

\* Permission was asked for the empty path, after a failed edit of "d".
PermissionAnsweredForEmptyPath ==
    /\ reply.cmd = "request_file_write_permission"
    /\ "" \in granted
    /\ race["d"].failed

\* C4: calls on distinct paths that run concurrently and hit no OS failure
\* leave each path holding exactly the content of its call; a call fails
\* only because of its own path or of the device, never because of a call
\* on another path.
DistinctPathsIndependent ==
    /\ \A p \in Paths :
          Single(p) /\ race[p].other =>
              \E c \in race[p].contents : fs[p] = File(c)
    /\ \A c \in Calls :
          c.os \notin {"pending", "ok"} =>
              \/ c.os = "ENOSPC"
              \/ fs[c.path].kind \in {"dir", "readonly", "noparent"}

ConcurrentDistinctPathsDone ==
    /\ Calls = {}
    /\ Single("f") /\ race["f"].other /\ fs["f"] = File(Rep(Letter(MaxLen), MaxLen))
    /\ Single("g") /\ race["g"].other /\ fs["g"] = File("a")

\* C5 as stated: after concurrent successful calls on one path the file holds
\* exactly the content of one of the calls.
LastWriteWinsExact ==
    \A p \in Paths :
        Raced(p) => \E c \in race[p].contents : fs[p] = File(c)

\* C5 amended: after concurrent successful calls on one path the file exists,
\* it is at least as long as the shortest and at most as long as the longest
\* of the contents, every byte at position i is byte i of one of the
\* contents or a zero byte of a hole, and no hole lies within the length of
\* the shortest content.
RaceLeavesBytewiseMixture ==
    \A p \in Paths :
        Raced(p) =>
            LET d == fs[p].data
                cs == race[p].contents
            IN  /\ fs[p].kind = "file"
                /\ \E c \in cs : Len(c) <= Len(d)
                /\ \E c \in cs : Len(d) <= Len(c)
                /\ \A i \in 1..Len(d) :
                      \/ \E c \in cs : i <= Len(c) /\ Byte(c, i) = Byte(d, i)
                      \/ /\ Byte(d, i) = Nul
                         /\ \E c \in cs : Len(c) < i

\* Two calls raced on "f" and left a mixture of their contents.
RaceLeftMixture ==
    /\ Raced("f")
    /\ fs["f"].kind = "file"
    /\ fs["f"].data \notin race["f"].contents

\* C6: a call of apply_file_edit that has opened its file for writing was
\* preceded by a request_file_write_permission for that path that returned
\* true.
WriteOnlyAfterPermission ==
    \A c \in Calls :
        (c.pc = "write" \/ (c.pc = "return" /\ c.os \in {"ok", "ENOSPC"})) =>
            c.path \in granted

\* C7: greet(n) succeeds with "Hello, " then n then "! You've been greeted
\* from Rust!"; the result depends on n alone.
GreetFormat ==
    reply.cmd = "greet" =>
        LET n == reply.a1
            r == reply.result.val
            hello == "Hello, "
            rust == "You've been greeted from Rust!"
        IN  /\ reply.result.ok
            /\ Len(r) = Len(hello) + Len(n) + Len(rust) + 2
            /\ SubSeq(r, 1, Len(hello)) = hello
            /\ SubSeq(r, Len(hello) + 1, Len(hello) + Len(n)) = n
            /\ SubSeq(r, Len(hello) + Len(n) + 1, Len(r)) = "! " \o rust
            /\ Contains(r, n) /\ Contains(r, hello) /\ Contains(r, rust)

\* greet("Ada") answered after an edit of "f" had run.
GreetedAfterEdit ==
    /\ reply.cmd = "greet"
    /\ reply.a1 = "Ada"
    /\ fs["f"].kind = "file"

\* The orders in which a set of plugins can be registered.
Orders(S) ==
    { o \in [1..Cardinality(S) -> S] :
        \A i, j \in 1..Cardinality(S) : o[i] = o[j] => i = j }

RECURSIVE RegisterAll(_, _, _)
RegisterAll(b, o, i) ==
    IF i > Len(o) THEN b ELSE RegisterAll(plugin(b, o[i]), o, i + 1)

\* C8: whenever a command can be or has been dispatched, the four plugins
\* are registered; and from every point of the build, registering the
\* remaining plugins in any order gives the same set of four plugins.
PluginsBeforeHandlers ==
    /\ (\E h \in Handlers : Reachable(h)) \/ ncalls > 0 \/ Calls # {}
          => builder.plugins = AllPlugins
    /\ \A o \in Orders(AllPlugins \ builder.plugins) :
          RegisterAll(builder, o, 1).plugins = AllPlugins

CommandDispatchedWithPlugins ==
    /\ reply.cmd = "greet"
    /\ Calls # {}
    /\ builder.plugins = AllPlugins

\* C9: a step changes the file at p only if it is a step of an
\* apply_file_edit call on p; greet, request_file_write_permission, the
\* dispatch of a call and the steps of calls on other paths leave it alone.
FrameEffect ==
    [][\A p \in Paths :
          fs'[p] # fs[p] =>
              \E c \in Calls :
                  c.path = p /\ CopiesIn(c, inflight') < CopiesIn(c, inflight)]_vars

\* A successful edit of "f" and a permission request left "g" as it was.
EditLeftOtherFileAlone ==
    /\ race["f"].contents # {} /\ Idle("f")
    /\ fs["f"].kind = "file"
    /\ reply.cmd = "request_file_write_permission"
    /\ fs["g"] = InitFs["g"]

\* C10: whenever calls of apply_file_edit are in flight, a state follows in
\* which all of them have returned; a call has made exactly one write attempt
\* when it returns, with success or with an error; a call in flight can
\* always take its next step, whatever the other calls do.
EveryCallReturnsAfterOneAttempt ==
    /\ (Calls # {}) ~> (Calls = {})
    /\ [](reply.cmd = "apply_file_edit" => reply.attempts = 1)
    /\ [](\A c \in Calls : c.attempts <= 1 /\ ENABLED CallStep(c))

FailedWriteReturned ==
    /\ reply.cmd = "apply_file_edit"
    /\ reply.os = "ENOSPC"
    /\ reply.attempts = 1
    /\ Calls # {}

====
